---- MODULE Spec2Model ----
(***************************************************************************)
(* Model of the Stream Deck plugin runtime of opendeck-pulse-mixer:        *)
(* plugin.py (StreamDeck: transport callbacks, message router, image loop; *)
(* SDPlugin: instance store, outbound commands) as specialised by main.py  *)
(* (PulsePlugin: get_settings, on_loop, onKeyUp and the cached sinks).     *)
(*                                                                         *)
(* Two threads share the state: the websocket thread, which runs on_open,  *)
(* on_message and on_close one after the other, and the image_loop thread. *)
(* The websocket thread is modelled statement by statement where it writes *)
(* the instance store (mpc), the image loop iteration by iteration (lpc).  *)
(***************************************************************************)
EXTENDS Integers, Sequences, FiniteSets, TLC

VARIABLES
    conn,         \* the WebSocketApp: "new", "connecting", "open", "closed"
    running,      \* StreamDeck.running
    errors,       \* StreamDeck.errors: dict context -> int
    contexts,     \* SDPlugin.contexts: list of contexts
    ctxSettings,  \* SDPlugin.ctxSettings: dict context -> settings
    ctxInfo,      \* SDPlugin.ctxInfo: dict context -> info
    sent,         \* the frames handed to socket.send, in order
    mpc,          \* websocket thread: the statement on_message is at
    cur,          \* websocket thread: the frame on_message is handling
    mhandler,     \* websocket thread: the handler on_message resolved for cur
    mexc,         \* websocket thread: the exception on_message caught for cur
    lpc,          \* image_loop thread: the statement it is at
    idx,          \* image_loop thread: position of the list iterator of the for loop
    lctx,         \* image_loop thread: the loop variable ctx
    lres,         \* image_loop thread: how the last on_loop call ended
    tick,         \* image_loop thread: the list when the tick began, the on_loop calls since
    server,       \* the sinks of the PulseAudio server
    sinks,        \* PulsePlugin.sinks: the sink objects of the last refresh()
    last_devices, \* PulsePlugin.last_devices: dict context -> nickname
    last_volumes, \* PulsePlugin.last_volumes: dict context -> volume
    call,         \* the last call of an outbound command from outside on_message and on_loop
    pulse_lock    \* PulsePlugin.pulse_lock: "free" or the thread that holds it

vars == <<conn, running, errors, contexts, ctxSettings, ctxInfo, sent,
          mpc, cur, mhandler, mexc, lpc, idx, lctx, lres, tick,
          server, sinks, last_devices, last_volumes, call, pulse_lock>>

store == <<contexts, ctxSettings, ctxInfo>>

pulseVars == <<server, sinks>>
cacheVars == <<last_devices, last_volumes>>
appVars == <<pulseVars, cacheVars, call, pulse_lock>>

(***************************************************************************)
(* Bounds and program constants                                            *)
(***************************************************************************)
MAX_ERRORS == 5

\* get_settings frames are accepted while fewer than MaxInspector
\* sendToPropertyInspector frames were sent
MaxInspector == 1

\* SetState is called while fewer than MaxSetState setState frames were sent
MaxSetState == 2

\* keyUp frames are accepted while fewer than MaxKeyAlerts showAlert frames
\* were sent by the websocket thread
MaxKeyAlerts == 2

\* value_flat 1.0 in hundredths
FullVolume == 100

\* the host sends frames while fewer than MaxImages setImage frames were sent
MaxImages == 2

Contexts == {"c1", "c2"}

Absent == "absent"
NoCtx == "-"

(***************************************************************************)
(* Python containers                                                       *)
(***************************************************************************)
Range(s) == {s[i] : i \in 1..Len(s)}

\* list.index(x) for an x that is in the list
IndexOf(s, x) == CHOOSE i \in 1..Len(s) : s[i] = x /\ \A j \in 1..(i - 1) : s[j] # x

\* list.pop(i)
PopAt(s, i) == SubSeq(s, 1, i - 1) \o SubSeq(s, i + 1, Len(s))

\* d[k] = v
DictSet(d, k, v) == [x \in (DOMAIN d) \cup {k} |-> IF x = k THEN v ELSE d[x]]

\* del d[k] for a k that is a key
DictDel(d, k) == [x \in (DOMAIN d) \ {k} |-> d[x]]

EmptyDict == [x \in {} |-> Absent]

(***************************************************************************)
(* Inbound frames.  A frame is unparsable text, JSON that is no object, or *)
(* a JSON object.  An event name is the sequence of its first character    *)
(* and the rest; hasEvent is FALSE when the object has no "event" key.     *)
(* missing names the first key the payload lacks: "context", "settings"    *)
(* (payload.settings), "info" (one of coordinates, controller, state,      *)
(* isInMultiAction, action) or "none".                                     *)
(***************************************************************************)
\* a settings object; a key the object lacks is Absent
Settings(device, nickname) == [audioDevice |-> device, deviceNickname |-> nickname]

\* {}
EmptySettings == Settings(Absent, Absent)

SettingsValues == {EmptySettings, Settings("Speakers", Absent)}

ActionValues == {"showvol", "volup"}

\* bool(settings) is False
Falsy(settings) == settings = EmptySettings

Frame(kind, hasEvent, event, context, missing, settings, action) ==
    [kind |-> kind, hasEvent |-> hasEvent, event |-> event, context |-> context,
     missing |-> missing, settings |-> settings, action |-> action]

NoFrame == Frame("none", FALSE, <<>>, NoCtx, "none", EmptySettings, "showvol")

\* an object that carries an event name and nothing the handlers read
Bare(event) == Frame("dict", TRUE, event, NoCtx, "context", EmptySettings, "showvol")

\* an object that carries an event name and a context
ForCtx(event, c) == Frame("dict", TRUE, event, c, "none", EmptySettings, "showvol")

willAppear == <<"w", "illAppear">>
WillAppearCap == <<"W", "illAppear">>
didReceiveSettings == <<"d", "idReceiveSettings">>
willDisappear == <<"w", "illDisappear">>
propertyInspectorDidAppear == <<"p", "ropertyInspectorDidAppear">>
sendToPlugin == <<"s", "endToPlugin">>
keyDown == <<"k", "eyDown">>
keyUp == <<"k", "eyUp">>
systemDidWakeUp == <<"s", "ystemDidWakeUp">>
underscoreLoop == <<"_", "loop">>
bogus == <<"b", "ogus">>

\* the event names of the wire protocol the model delivers
RecognizedEvents == {willAppear, didReceiveSettings, willDisappear,
                     propertyInspectorDidAppear, sendToPlugin, keyDown, systemDidWakeUp}

AppearFrames(event) ==
    {Frame("dict", TRUE, event, c, "none", s, a) :
        c \in Contexts, s \in SettingsValues, a \in ActionValues}

MalformedAppearFrames ==
    {Bare(willAppear)}
    \cup {Frame("dict", TRUE, willAppear, c, "settings", EmptySettings, "showvol") :
            c \in Contexts}
    \cup {Frame("dict", TRUE, willAppear, c, "info", Settings("Speakers", Absent), "showvol") :
            c \in Contexts}

Frames ==
    {Frame("unparsable", FALSE, <<>>, NoCtx, "none", EmptySettings, "showvol"),
     Frame("nondict", FALSE, <<>>, NoCtx, "none", EmptySettings, "showvol"),
     Frame("dict", FALSE, <<>>, "c1", "none", EmptySettings, "showvol"),
     Frame("dict", TRUE, <<>>, "c1", "none", EmptySettings, "showvol")}
    \cup AppearFrames(willAppear)
    \cup MalformedAppearFrames
    \cup {Frame("dict", TRUE, didReceiveSettings, c, "none", s, "showvol") :
            c \in Contexts, s \in SettingsValues}
    \cup {Frame("dict", TRUE, WillAppearCap, "c1", "none", Settings("Speakers", Absent), "showvol")}
    \cup {ForCtx(e, c) : e \in {willDisappear, propertyInspectorDidAppear, sendToPlugin},
                         c \in Contexts}
    \cup {Bare(willDisappear), Bare(sendToPlugin)}
    \cup {ForCtx(e, "c1") : e \in {keyDown, systemDidWakeUp, underscoreLoop, bogus}}

(***************************************************************************)
(* Outbound frames                                                         *)
(***************************************************************************)
Msg(event, context, by) == [event |-> event, context |-> context, by |-> by]

\* by names the thread that sent: "ws" the websocket thread, "loop" the image loop
RegisterMsg == Msg("registerEvent", NoCtx, "ws")
ShowAlertMsg(context, by) == Msg("showAlert", context, by)
SendToPIMsg(context) == Msg("sendToPropertyInspector", context, "ws")

\* SetImage(context, show_sink_info(volume, nickname)), sent by on_loop
SetImageMsg(context, nickname, volume) ==
    [event |-> "setImage", context |-> context, by |-> "loop",
     nickname |-> nickname, volume |-> volume]

(***************************************************************************)
(* PulseAudio sinks.  volume is volume.value_flat in hundredths: the float *)
(* of a sink of volume h is h / 100.0.                                     *)
(***************************************************************************)
Sink(index, description, volume, mute) ==
    [index |-> index, description |-> description, volume |-> volume, mute |-> mute]

\* next((s for s in self.sinks if ...), None) found nothing
NoSink == Sink(-1, Absent, 0, FALSE)

\* the sink list of the server the plugin is started on
DefaultSinks == <<Sink(0, "Speakers", 50, FALSE)>>

\* get_sink_from_name(name)
SinkFromName(list, name) ==
    IF \E i \in 1..Len(list) : list[i].description = name
    THEN list[CHOOSE i \in 1..Len(list) :
                 list[i].description = name
                 /\ \A j \in 1..(i - 1) : list[j].description # name]
    ELSE NoSink

\* the hundredths h for which the double (h / 100.0) * 100.0 is below h
RoundsDown == {29, 57, 58}

\* int(sink.volume.value_flat * 100.0)
PercentOf(h) == IF h \in RoundsDown THEN h - 1 ELSE h

NoCall == [op |-> "none", context |-> NoCtx, state |-> 0, exc |-> "none"]

\* the image loop is between two ticks
NoTick == [start |-> <<>>, hooked |-> <<>>]

(***************************************************************************)
(* Router: the name of the method on_message calls for an event            *)
(***************************************************************************)
\* str.upper() of one character
Upper(ch) ==
    CASE ch = "w" -> "W"
      [] ch = "d" -> "D"
      [] ch = "p" -> "P"
      [] ch = "s" -> "S"
      [] ch = "k" -> "K"
      [] ch = "b" -> "B"
      [] OTHER -> ch

\* f"on{event[0].upper()}{event[1:]}" for a non-empty event
MethodName(event) == <<"on", Upper(Head(event))>> \o Tail(event)

\* getattr(self.plugin, method_name, None): what the attribute of PulsePlugin does
\*   "setSettings"    onWillAppear, onDidReceiveSettings
\*   "removeSettings" onWillDisappear
\*   "get_settings"   onSendToPlugin, onPropertyInspectorDidAppear (main.py)
\*   "onKeyUp"        onKeyUp (main.py)
\*   "pass"           a hook of SDPlugin that PulsePlugin leaves as it is
\*   "pass0"          onSystemDidWakeUp, which takes no payload
\*   "on_loop"        PulsePlugin.on_loop, an attribute that is no event hook
\*   "None"           no such attribute
GetAttr(method) ==
    CASE method = <<"on", "W", "illAppear">> -> "setSettings"
      [] method = <<"on", "D", "idReceiveSettings">> -> "setSettings"
      [] method = <<"on", "W", "illDisappear">> -> "removeSettings"
      [] method = <<"on", "S", "endToPlugin">> -> "get_settings"
      [] method = <<"on", "P", "ropertyInspectorDidAppear">> -> "get_settings"
      [] method = <<"on", "K", "eyDown">> -> "pass"
      [] method = <<"on", "K", "eyUp">> -> "onKeyUp"
      [] method = <<"on", "S", "ystemDidWakeUp">> -> "pass0"
      [] method = <<"on", "_", "loop">> -> "on_loop"
      [] OTHER -> "None"

\* the handlers that write the instance store
StoreHandlers == {"setSettings", "removeSettings", "get_settings"}

(***************************************************************************)
(* Initial state: the PulsePlugin object after construction                *)
(***************************************************************************)
Boot(list) ==
    /\ conn = "new"
    /\ running = FALSE
    /\ errors = EmptyDict
    /\ contexts = <<>>
    /\ ctxSettings = EmptyDict
    /\ ctxInfo = EmptyDict
    /\ sent = <<>>
    /\ mpc = "idle"
    /\ cur = NoFrame
    /\ mhandler = "None"
    /\ mexc = "none"
    /\ lpc = "off"
    /\ idx = 0
    /\ lctx = NoCtx
    /\ lres = "none"
    /\ tick = NoTick
    /\ server = list
    /\ sinks = list
    /\ last_devices = EmptyDict
    /\ last_volumes = EmptyDict
    /\ call = NoCall
    /\ pulse_lock = "free"

Init == Boot(DefaultSinks)

loopVars == <<running, errors, lpc, idx, lctx, lres, tick>>
msgVars == <<mpc, cur, mhandler, mexc>>

(***************************************************************************)
(* StreamDeck.run, on_open, on_close                                       *)
(***************************************************************************)
\* run(): sets the flag, starts the image_loop thread, then connects
Run ==
    /\ conn = "new"
    /\ conn' = "connecting"
    /\ running' = TRUE
    /\ lpc' = "while"
    /\ UNCHANGED <<errors, store, sent, msgVars, idx, lctx, lres, tick, appVars>>

\* on_open(): register()
OnOpenMut ==
    /\ conn = "connecting"
    /\ conn' = "open"
    /\ UNCHANGED <<sent, loopVars, store, msgVars, appVars>>
OnOpen ==
    /\ conn = "connecting"
    /\ conn' = "open"
    /\ sent' = Append(sent, RegisterMsg)
    /\ UNCHANGED <<loopVars, store, msgVars, appVars>>

\* on_close(): between two frames, on the websocket thread
OnClose ==
    /\ conn \in {"connecting", "open"}
    /\ mpc = "idle"
    /\ conn' = "closed"
    /\ running' = FALSE
    /\ UNCHANGED <<errors, store, sent, msgVars, lpc, idx, lctx, lres, tick, appVars>>

(***************************************************************************)
(* StreamDeck.on_message: the router                                       *)
(***************************************************************************)
\* isinstance(parsed, dict)
IsMapping(f) == f.kind = "dict"

\* on_message returns without having caught anything
RouterEnd == mpc' = "done" /\ mexc' = "none" /\ UNCHANGED conn

\* the except clause of on_message: log, print the trace, return
RouterCatchMut(exc) == mpc' = "done" /\ mexc' = exc /\ conn' = "closed"
RouterCatch(exc) == mpc' = "done" /\ mexc' = exc /\ UNCHANGED conn

\* json.loads, the isinstance test, the method name, getattr and the call
Dispatch(f) ==
    IF f.kind = "unparsable" THEN mhandler' = "None" /\ RouterCatch("JSONDecodeError")
    ELSE IF ~IsMapping(f) THEN mhandler' = "None" /\ RouterEnd
    ELSE IF ~f.hasEvent THEN mhandler' = "None" /\ RouterCatch("TypeError")
    ELSE IF f.event = <<>> THEN mhandler' = "None" /\ RouterCatch("IndexError")
    ELSE LET handler == GetAttr(MethodName(f.event)) IN
         /\ mhandler' = handler
         /\ CASE handler = "None" -> RouterEnd
              [] handler = "pass" -> RouterEnd
              [] handler = "pass0" ->
                    IF f.event = systemDidWakeUp THEN RouterEnd
                    ELSE RouterCatch("TypeError")
              [] handler = "on_loop" -> RouterCatch("TypeError")
              [] OTHER -> mpc' = handler /\ mexc' = "none" /\ UNCHANGED conn

\* the handler a frame resolves to ("None" when on_message calls none)
HandlerFor(f) ==
    IF IsMapping(f) /\ f.hasEvent /\ f.event # <<>> THEN GetAttr(MethodName(f.event))
    ELSE "None"

InspectorSent ==
    Cardinality({i \in 1..Len(sent) : sent[i].event = "sendToPropertyInspector"})

KeyAlertsSent ==
    Cardinality({i \in 1..Len(sent) : sent[i].event = "showAlert" /\ sent[i].by = "ws"})

Receive(f) ==
    /\ conn = "open"
    /\ mpc = "idle"
    /\ HandlerFor(f) = "get_settings" => InspectorSent < MaxInspector
    /\ HandlerFor(f) = "onKeyUp" => KeyAlertsSent < MaxKeyAlerts
    /\ cur' = f
    /\ Dispatch(f)
    /\ UNCHANGED <<loopVars, store, sent, appVars>>

\* on_message has returned; the websocket thread waits for the next frame
Return ==
    /\ mpc = "done"
    /\ mpc' = "idle"
    /\ cur' = NoFrame
    /\ mhandler' = "None"
    /\ mexc' = "none"
    /\ UNCHANGED <<conn, loopVars, store, sent, appVars>>

(***************************************************************************)
(* SDPlugin.setSettings (onWillAppear, onDidReceiveSettings)               *)
(***************************************************************************)
\* if context not in self.contexts: self.contexts.append(context)
AppendIfAbsentMut(list, context) == Append(list, context)
AppendIfAbsent(list, context) ==
    IF context \in Range(list) THEN list ELSE Append(list, context)

\* the dict setSettings stores in ctxInfo
InfoOf(f) ==
    [coordinates |-> "r0c0", controller |-> "Keypad", state |-> 0,
     isInMultiAction |-> FALSE, action |-> f.action]

SetAppend ==
    /\ mpc = "setSettings"
    /\ IF cur.missing = "context"
       THEN RouterCatch("KeyError") /\ UNCHANGED contexts
       ELSE /\ contexts' = AppendIfAbsent(contexts, cur.context)
            /\ mpc' = "set_settings"
            /\ UNCHANGED <<conn, mexc>>
    /\ UNCHANGED <<loopVars, ctxSettings, ctxInfo, sent, cur, mhandler, appVars>>

SetCtxSettings ==
    /\ mpc = "set_settings"
    /\ IF cur.missing = "settings"
       THEN RouterCatch("KeyError") /\ UNCHANGED ctxSettings
       ELSE /\ ctxSettings' = DictSet(ctxSettings, cur.context, cur.settings)
            /\ mpc' = "set_info"
            /\ UNCHANGED <<conn, mexc>>
    /\ UNCHANGED <<loopVars, contexts, ctxInfo, sent, cur, mhandler, appVars>>

SetCtxInfo ==
    /\ mpc = "set_info"
    /\ IF cur.missing = "info"
       THEN RouterCatch("KeyError") /\ UNCHANGED ctxInfo
       ELSE /\ ctxInfo' = DictSet(ctxInfo, cur.context, InfoOf(cur))
            /\ RouterEnd
    /\ UNCHANGED <<loopVars, contexts, ctxSettings, sent, cur, mhandler, appVars>>

(***************************************************************************)
(* SDPlugin.removeSettings (onWillDisappear)                               *)
(***************************************************************************)
\* self.contexts.pop(self.contexts.index(context)) for a context in the list
RemoveContextMut(list, context) == SubSeq(list, 1, Len(list) - 1)
RemoveContext(list, context) == PopAt(list, IndexOf(list, context))

RmPopMut ==
    /\ mpc = "removeSettings"
    /\ IF cur.missing = "context"
       THEN RouterCatch("KeyError") /\ UNCHANGED contexts
       ELSE /\ contexts' = SelectSeq(contexts, LAMBDA c : c # cur.context)
            /\ mpc' = "rm_settings"
            /\ UNCHANGED <<conn, mexc>>
    /\ UNCHANGED <<loopVars, ctxSettings, ctxInfo, sent, cur, mhandler, appVars>>
RmPop ==
    /\ mpc = "removeSettings"
    /\ IF cur.missing = "context"
       THEN RouterCatch("KeyError") /\ UNCHANGED contexts
       ELSE IF cur.context \notin Range(contexts)
       THEN RouterCatch("ValueError") /\ UNCHANGED contexts
       ELSE /\ contexts' = RemoveContext(contexts, cur.context)
            /\ mpc' = "rm_settings"
            /\ UNCHANGED <<conn, mexc>>
    /\ UNCHANGED <<loopVars, ctxSettings, ctxInfo, sent, cur, mhandler, appVars>>

RmDelSettings ==
    /\ mpc = "rm_settings"
    /\ IF cur.context \notin DOMAIN ctxSettings
       THEN RouterCatch("KeyError") /\ UNCHANGED ctxSettings
       ELSE /\ ctxSettings' = DictDel(ctxSettings, cur.context)
            /\ mpc' = "rm_info"
            /\ UNCHANGED <<conn, mexc>>
    /\ UNCHANGED <<loopVars, contexts, ctxInfo, sent, cur, mhandler, appVars>>

RmDelInfo ==
    /\ mpc = "rm_info"
    /\ IF cur.context \notin DOMAIN ctxInfo
       THEN RouterCatch("KeyError") /\ UNCHANGED ctxInfo
       ELSE /\ ctxInfo' = DictDel(ctxInfo, cur.context)
            /\ RouterEnd
    /\ UNCHANGED <<loopVars, contexts, ctxSettings, sent, cur, mhandler, appVars>>

(***************************************************************************)
(* PulsePlugin.get_settings (onSendToPlugin, onPropertyInspectorDidAppear) *)
(***************************************************************************)
\* if context not in self.ctxSettings: self.ctxSettings[context] = {}
DefaultSettings(settings, context) ==
    IF context \in DOMAIN settings THEN settings
    ELSE DictSet(settings, context, EmptySettings)

\* context = payload["context"]; get_settings(context) calls refresh(),
\* which enters `with self.pulse_lock` (only the websocket thread ever
\* takes the lock, so it is free)
RefreshAcquire ==
    /\ mpc = "get_settings"
    /\ IF cur.missing = "context"
       THEN RouterCatch("KeyError") /\ UNCHANGED pulse_lock
       ELSE /\ pulse_lock = "free"
            /\ pulse_lock' = "ws"
            /\ mpc' = "refresh"
            /\ UNCHANGED <<conn, mexc>>
    /\ UNCHANGED <<loopVars, store, sent, cur, mhandler, pulseVars, cacheVars, call>>

\* refresh() replaces the list by pulse.sink_list() and leaves the with
\* block; get_settings goes on to its end
GetSettings ==
    /\ mpc = "refresh"
    /\ sinks' = server
    /\ pulse_lock' = "free"
    /\ ctxSettings' = DefaultSettings(ctxSettings, cur.context)
    /\ sent' = Append(sent, SendToPIMsg(cur.context))
    /\ RouterEnd
    /\ UNCHANGED <<loopVars, contexts, ctxInfo, cur, mhandler, server, cacheVars, call>>

(***************************************************************************)
(* PulsePlugin.onKeyUp with get_volume, set_volume and toggle_mute         *)
(***************************************************************************)
Min(a, b) == IF a < b THEN a ELSE b
Max(a, b) == IF a > b THEN a ELSE b

\* get_sink(index)
SinkFromIndex(list, index) ==
    IF \E i \in 1..Len(list) : list[i].index = index
    THEN list[CHOOSE i \in 1..Len(list) :
                 list[i].index = index /\ \A j \in 1..(i - 1) : list[j].index # index]
    ELSE NoSink

\* get_volume(index) for the index of a sink of the list
GetVolume(list, index) == PercentOf(SinkFromIndex(list, index).volume)

\* set_volume: if volume > 1.0: volume = volume / 100.0;
\* value = max(0.0, min(1.0, volume)), in hundredths
RequestedVolume(volume) ==
    Max(0, Min(FullVolume, IF volume > 1 THEN volume ELSE volume * 100))

\* the sinks of a list after volume_set_all_chans for the sink of an index
WithVolume(list, index, value) ==
    [i \in DOMAIN list |->
        IF list[i].index = index THEN [list[i] EXCEPT !.volume = value] ELSE list[i]]

\* the sinks of a list after mute(sink, mute) for the sink of an index
WithMute(list, index, mute) ==
    [i \in DOMAIN list |->
        IF list[i].index = index THEN [list[i] EXCEPT !.mute = mute] ELSE list[i]]

\* set_volume(index, volume): pulse.volume_set_all_chans sets the volume of
\* the sink object it is given and of the sink of the server
SetVolume(index, volume) ==
    IF SinkFromIndex(sinks, index) # NoSink
    THEN /\ sinks' = WithVolume(sinks, index, RequestedVolume(volume))
         /\ server' = WithVolume(server, index, RequestedVolume(volume))
    ELSE UNCHANGED pulseVars

\* toggle_mute(index): pulse.mute sets the flag of the sink object it is
\* given and of the sink of the server
ToggleMute(index) ==
    IF SinkFromIndex(sinks, index) # NoSink
    THEN /\ sinks' = WithMute(sinks, index, ~SinkFromIndex(sinks, index).mute)
         /\ server' = WithMute(server, index, ~SinkFromIndex(sinks, index).mute)
    ELSE UNCHANGED pulseVars

\* self.ctxSettings.get(context), None being as falsy as {}
SettingsGet(context) ==
    IF context \in DOMAIN ctxSettings THEN ctxSettings[context] ELSE EmptySettings

\* one of the three tests of onKeyUp that end in ShowAlert holds
KeyUpFailsMut(settings, sink) ==
    Falsy(settings) \/ settings.audioDevice \in {Absent, ""}
KeyUpFails(settings, sink) ==
    Falsy(settings) \/ settings.audioDevice \in {Absent, ""} \/ sink = NoSink

OnKeyUp ==
    /\ mpc = "onKeyUp"
    /\ IF cur.missing = "context"
       THEN RouterCatch("KeyError") /\ UNCHANGED <<sent, pulseVars>>
       ELSE LET settings == SettingsGet(cur.context)
                sink == SinkFromName(sinks, settings.audioDevice)
            IN  /\ RouterEnd
                /\ IF KeyUpFails(settings, sink)
                   THEN /\ sent' = Append(sent, ShowAlertMsg(cur.context, "ws"))
                        /\ UNCHANGED pulseVars
                   ELSE /\ UNCHANGED sent
                        /\ CASE cur.action = "volup" ->
                                    SetVolume(sink.index, GetVolume(sinks, sink.index) + 5)
                             [] cur.action = "voldown" ->
                                    SetVolume(sink.index, GetVolume(sinks, sink.index) - 5)
                             [] cur.action \in {"mute", "showvol"} ->
                                    ToggleMute(sink.index)
                             [] OTHER -> UNCHANGED pulseVars
    /\ UNCHANGED <<loopVars, store, cur, mhandler, cacheVars, call, pulse_lock>>

(***************************************************************************)
(* SDPlugin.SetState, called by the code that uses the plugin object       *)
(***************************************************************************)
SetStateMsg(context, state) ==
    [event |-> "setState", context |-> context, by |-> "caller", state |-> state]

\* the state arguments the model passes
StateArgs == -2..3

\* if state < 0 or state > 1: raise ValueError
StateInvalidMut(state) == state < 0 /\ state > 1
StateInvalid(state) == state < 0 \/ state > 1

SetStateSent == Cardinality({i \in 1..Len(sent) : sent[i].event = "setState"})

SetState(context, state) ==
    /\ conn = "open"
    /\ SetStateSent < MaxSetState
    /\ IF StateInvalid(state)
       THEN /\ call' = [op |-> "SetState", context |-> context, state |-> state,
                        exc |-> "ValueError"]
            /\ UNCHANGED sent
       ELSE /\ call' = [op |-> "SetState", context |-> context, state |-> state,
                        exc |-> "none"]
            /\ sent' = Append(sent, SetStateMsg(context, state))
    /\ UNCHANGED <<conn, loopVars, store, msgVars, pulseVars, cacheVars, pulse_lock>>

(***************************************************************************)
(* StreamDeck.image_loop                                                   *)
(***************************************************************************)
\* self.errors[ctx] >= MAX_ERRORS
ThresholdReachedMut(n) == n > MAX_ERRORS
ThresholdReachedAny(n) == n >= 1
ThresholdReached(n) == n >= MAX_ERRORS

\* if not ctx in self.errors: self.errors[ctx] = 0;  self.errors[ctx] += 1
BumpErrorsMut(errs, ctx) == DictSet(errs, ctx, 1)
BumpErrors(errs, ctx) ==
    DictSet(errs, ctx, (IF ctx \in DOMAIN errs THEN errs[ctx] ELSE 0) + 1)

\* PulsePlugin.on_loop reaches the sink lookup, the rendering and SetImage,
\* the calls that can raise: settings and info are there and truthy, the
\* action is showvol and an audio device is set
HookCanRaise(ctx) ==
    /\ ctx \in DOMAIN ctxSettings
    /\ ~Falsy(ctxSettings[ctx])
    /\ ctx \in DOMAIN ctxInfo
    /\ ctxInfo[ctx].action = "showvol"
    /\ ctxSettings[ctx].audioDevice # Absent

\* while self.running: a tick begins with a fresh iterator over the list
LoopWhileMut ==
    /\ lpc = "while"
    /\ lpc' = "for"
    /\ tick' = [start |-> contexts, hooked |-> <<>>]
    /\ idx' = 0
    /\ lctx' = NoCtx
    /\ lres' = "none"
    /\ UNCHANGED <<conn, running, errors, store, sent, msgVars, appVars>>
LoopWhile ==
    /\ lpc = "while"
    /\ IF running
       THEN lpc' = "for" /\ tick' = [start |-> contexts, hooked |-> <<>>]
       ELSE lpc' = "done" /\ tick' = NoTick
    /\ idx' = 0
    /\ lctx' = NoCtx
    /\ lres' = "none"
    /\ UNCHANGED <<conn, running, errors, store, sent, msgVars, appVars>>

\* for ctx in self.plugin.contexts: the iterator reads the list as it is now;
\* when it is exhausted the loop waits 0.2 s and tests the flag again
LoopFor ==
    /\ lpc = "for"
    /\ IF idx < Len(contexts)
       THEN /\ lctx' = contexts[idx + 1]
            /\ idx' = idx + 1
            /\ lpc' = "hook"
            /\ tick' = [tick EXCEPT !.hooked = Append(@, contexts[idx + 1])]
       ELSE lpc' = "while" /\ lctx' = NoCtx /\ tick' = NoTick /\ UNCHANGED idx
    /\ lres' = "none"
    /\ UNCHANGED <<conn, running, errors, store, sent, msgVars, appVars>>

\* str.strip() of a nickname
Strip(nickname) == IF nickname = " " THEN "" ELSE nickname

\* (nickname.strip() if nickname else None) or sink.description
ShownNickname(settings, sink) ==
    IF settings.deviceNickname \in {Absent, ""} \/ Strip(settings.deviceNickname) = ""
    THEN sink.description
    ELSE Strip(settings.deviceNickname)

\* the volume on_loop shows: 0 for a muted sink
ShownVolume(sink) == IF sink.mute THEN 0 ELSE PercentOf(sink.volume)

\* on_loop gets past its early returns: settings and info are there and
\* truthy, the action is showvol, the audio device is set and names a sink
ShowsVolume(ctx) ==
    /\ ctx \in DOMAIN ctxSettings
    /\ ~Falsy(ctxSettings[ctx])
    /\ ctx \in DOMAIN ctxInfo
    /\ ctxInfo[ctx].action = "showvol"
    /\ ctxSettings[ctx].audioDevice \notin {Absent, ""}
    /\ SinkFromName(sinks, ctxSettings[ctx].audioDevice) # NoSink

\* if not context in d: d[context] = value
SetDefault(d, context, value) ==
    IF context \in DOMAIN d THEN d ELSE DictSet(d, context, value)

\* the test of on_loop that guards SetImage
DisplayChanged(devices, volumes, context, nickname, volume) ==
    devices[context] # nickname \/ volumes[context] # volume

\* self.plugin.on_loop(ctx) returns
HookReturns ==
    /\ lpc = "hook"
    /\ lres' = "ok"
    /\ lpc' = "for"
    /\ IF ShowsVolume(lctx)
       THEN LET sink == SinkFromName(sinks, ctxSettings[lctx].audioDevice)
                nickname == ShownNickname(ctxSettings[lctx], sink)
                volume == ShownVolume(sink)
                devices == SetDefault(last_devices, lctx, nickname)
                volumes == SetDefault(last_volumes, lctx, volume)
            IN  IF DisplayChanged(devices, volumes, lctx, nickname, volume)
                THEN /\ sent' = Append(sent, SetImageMsg(lctx, nickname, volume))
                     /\ last_devices' = DictSet(devices, lctx, nickname)
                     /\ last_volumes' = DictSet(volumes, lctx, volume)
                ELSE /\ last_devices' = devices
                     /\ last_volumes' = volumes
                     /\ UNCHANGED sent
       ELSE UNCHANGED <<sent, cacheVars>>
    /\ UNCHANGED <<conn, running, errors, store, msgVars, idx, lctx, tick, pulseVars, call,
                   pulse_lock>>

\* self.plugin.on_loop(ctx) raises: the except clause
HookRaisesMut ==
    /\ lpc = "hook"
    /\ HookCanRaise(lctx)
    /\ lres' = "raised"
    /\ errors' = BumpErrors(errors, lctx)
    /\ IF ThresholdReached(errors'[lctx])
       THEN /\ sent' = Append(sent, ShowAlertMsg(lctx, "loop"))
            /\ running' = FALSE
            /\ lpc' = "while"
            /\ tick' = NoTick
            /\ conn' = "closed"
       ELSE /\ lpc' = "for"
            /\ UNCHANGED <<sent, running, tick, conn>>
    /\ UNCHANGED <<store, msgVars, idx, lctx, appVars>>
HookRaises ==
    /\ lpc = "hook"
    /\ HookCanRaise(lctx)
    /\ lres' = "raised"
    /\ errors' = BumpErrors(errors, lctx)
    /\ IF ThresholdReached(errors'[lctx])
       THEN /\ sent' = Append(sent, ShowAlertMsg(lctx, "loop"))
            /\ running' = FALSE
            /\ lpc' = "while"
            /\ tick' = NoTick
       ELSE /\ lpc' = "for"
            /\ UNCHANGED <<sent, running, tick>>
    /\ UNCHANGED <<conn, store, msgVars, idx, lctx, appVars>>

(***************************************************************************)
(* The system.  Spec: both threads, the host sending the lifecycle frames  *)
(* of two showvol buttons.  SpecRouter: the websocket thread on its own    *)
(* (the image loop writes none of conn, contexts, ctxSettings, ctxInfo),   *)
(* the host sending every kind of frame.                                   *)
(***************************************************************************)
LifecycleFrames ==
    {Frame("dict", TRUE, willAppear, c, "none", Settings("Speakers", Absent), "showvol") :
        c \in Contexts}
    \cup {ForCtx(willDisappear, c) : c \in Contexts}

WebSocketThread ==
    \/ Return
    \/ SetAppend
    \/ SetCtxSettings
    \/ SetCtxInfo
    \/ RmPop
    \/ RmDelSettings
    \/ RmDelInfo

ImageLoopThread ==
    \/ LoopWhile
    \/ LoopFor
    \/ HookReturns
    \/ HookRaises

Next ==
    \/ Run
    \/ OnOpen
    \/ OnClose
    \/ \E f \in LifecycleFrames : Receive(f)
    \/ WebSocketThread
    \/ ImageLoopThread

Spec == Init /\ [][Next]_vars

\* SpecFair: the image_loop thread is scheduled again and again, and every
\* on_loop call it makes comes back (it returns or it raises)
SpecFair == Spec /\ WF_vars(ImageLoopThread)

NextRouter ==
    \/ Run
    \/ OnOpen
    \/ OnClose
    \/ \E f \in Frames : Receive(f)
    \/ WebSocketThread
    \/ RefreshAcquire
    \/ GetSettings

SpecRouter == Init /\ [][NextRouter]_vars

\* SpecBreaker: both threads; the host shows button c1, shows and hides
\* button c2 and opens the property inspector of c2
BreakerFrames ==
    {Frame("dict", TRUE, willAppear, c, "none", Settings("Speakers", Absent), "showvol") :
        c \in Contexts}
    \cup {ForCtx(willDisappear, "c2"), ForCtx(propertyInspectorDidAppear, "c2")}

NextBreaker ==
    \/ Run
    \/ OnOpen
    \/ OnClose
    \/ \E f \in BreakerFrames : Receive(f)
    \/ WebSocketThread
    \/ RefreshAcquire
    \/ GetSettings
    \/ ImageLoopThread

SpecBreaker == Init /\ [][NextBreaker]_vars

\* SpecKeys: the websocket thread on its own, started on a server whose
\* sink Speakers has any volume and mute flag; the host configures button
\* c1 and sends the key releases of c1 and of the never configured c2
Volumes == 0..FullVolume

InitKeys == \E h \in Volumes, m \in BOOLEAN : Boot(<<Sink(0, "Speakers", h, m)>>)

KeySettings ==
    {EmptySettings, Settings(Absent, "Desk"), Settings("Speakers", Absent),
     Settings("Headset", Absent)}

KeyActions == {"volup", "voldown", "mute", "showvol"}

KeyFrames ==
    {Frame("dict", TRUE, didReceiveSettings, "c1", "none", s, "volup") : s \in KeySettings}
    \cup {Frame("dict", TRUE, keyUp, "c1", "none", EmptySettings, a) : a \in KeyActions}
    \cup {Frame("dict", TRUE, keyUp, "c2", "none", EmptySettings, "volup"), Bare(keyUp)}

NextKeys ==
    \/ Run
    \/ OnOpen
    \/ OnClose
    \/ \E f \in KeyFrames : Receive(f)
    \/ Return
    \/ SetAppend
    \/ SetCtxSettings
    \/ SetCtxInfo
    \/ OnKeyUp

SpecKeys == InitKeys /\ [][NextKeys]_vars

\* SpecDisplay: both threads, on_loop returning; the host shows the showvol
\* button c1 of the sink Speakers, gives it a nickname and sends its key
\* releases
DisplayFrames ==
    {Frame("dict", TRUE, willAppear, "c1", "none", Settings("Speakers", Absent), "showvol"),
     Frame("dict", TRUE, didReceiveSettings, "c1", "none", Settings("Speakers", "Desk"),
           "showvol"),
     Frame("dict", TRUE, keyUp, "c1", "none", EmptySettings, "showvol"),
     Frame("dict", TRUE, keyUp, "c1", "none", EmptySettings, "volup")}

ImagesSent == Cardinality({i \in 1..Len(sent) : sent[i].event = "setImage"})

ReceiveDisplay(f) == ImagesSent < MaxImages /\ Receive(f)

NextDisplay ==
    \/ Run
    \/ OnOpen
    \/ OnClose
    \/ \E f \in DisplayFrames : ReceiveDisplay(f)
    \/ Return
    \/ SetAppend
    \/ SetCtxSettings
    \/ SetCtxInfo
    \/ OnKeyUp
    \/ LoopWhile
    \/ LoopFor
    \/ HookReturns

SpecDisplay == Init /\ [][NextDisplay]_vars

\* SpecCommands: the plugin object on an open connection, its SetState
\* called with every argument of Contexts and StateArgs
NextCommands ==
    \/ Run
    \/ OnOpen
    \/ OnClose
    \/ \E c \in Contexts, state \in StateArgs : SetState(c, state)

SpecCommands == Init /\ [][NextCommands]_vars

(***************************************************************************)
(* Properties                                                              *)
(***************************************************************************)
Active(c) == c \in Range(contexts)

\* on_message is between two frames or has just finished one
FrameHandled == mpc \in {"idle", "done"}

\* the showAlert frames the image loop sent for c
LoopAlerts(c) ==
    Cardinality({i \in 1..Len(sent) : sent[i] = ShowAlertMsg(c, "loop")})

\* C1: whenever every delivered frame has been handled to its end, a
\* context is in the active list exactly when it has a settings entry and
\* an info entry.
C1_ActiveIffSettingsAndInfo ==
    FrameHandled =>
        \A c \in Contexts :
            Active(c) <=> (c \in DOMAIN ctxSettings /\ c \in DOMAIN ctxInfo)

\* C2: once a context's error counter has reached MAX_ERRORS, the image
\* loop has sent exactly one showAlert, for that context, the running flag
\* is false, and the loop is past its last tick: it is never again in the
\* for loop or in a hook call, for any context.
C2_TripStopsLoop ==
    \A c \in DOMAIN errors :
        errors[c] >= MAX_ERRORS =>
            /\ LoopAlerts(c) = 1
            /\ \A d \in Contexts \ {c} : LoopAlerts(d) = 0
            /\ ~running
            /\ lpc \in {"while", "done"}

\* C2 witness: c1 tripped the breaker while c2 was still to come in the
\* same tick, and the loop has ended.
C2_Witness ==
    /\ contexts = <<"c1", "c2">>
    /\ "c1" \in DOMAIN errors
    /\ errors["c1"] = MAX_ERRORS
    /\ "c2" \notin DOMAIN errors
    /\ lpc = "done"

\* the counter of c, 0 when there is none
Count(errs, c) == IF c \in DOMAIN errs THEN errs[c] ELSE 0

AppearEvent(f) ==
    f.kind = "dict" /\ f.hasEvent /\ f.event \in {willAppear, didReceiveSettings}

\* C4: when an appear or settings-received frame for C (carrying the
\* payload) has been handled, C is active and its settings and info are the
\* payload's; when a disappear frame for a C that was active has been
\* handled, C is in none of the active list, the settings map, the info map.
C4_AppearThenDisappear ==
    mpc = "done" =>
        /\ AppearEvent(cur) /\ cur.missing = "none" =>
              /\ mexc = "none"
              /\ Active(cur.context)
              /\ cur.context \in DOMAIN ctxSettings
              /\ ctxSettings[cur.context] = cur.settings
              /\ cur.context \in DOMAIN ctxInfo
              /\ ctxInfo[cur.context].action = cur.action
        /\ cur.event = willDisappear /\ cur.missing = "none" /\ mexc # "ValueError" =>
              /\ ~Active(cur.context)
              /\ cur.context \notin DOMAIN ctxSettings
              /\ cur.context \notin DOMAIN ctxInfo

\* C4 witness: the disappear frame of c1 has been handled without an
\* exception while c2 stays active.
C4_Witness ==
    /\ mpc = "done"
    /\ cur.event = willDisappear
    /\ cur.context = "c1"
    /\ mexc = "none"
    /\ Active("c2")
    /\ "c2" \in DOMAIN ctxInfo

\* C5: when a handler on_message called has raised, on_message has caught
\* it and the connection is open; the only step left for the frame is the
\* return (no handler statement runs for it again); and whenever the
\* websocket thread is between frames on an open connection, every frame
\* can be received and dispatched.
C5_HandlerErrorContained ==
    /\ [](mpc = "done" /\ mhandler # "None" /\ mexc # "none" =>
              conn = "open" /\ ENABLED Return)
    /\ [][mpc = "done" /\ mpc' # mpc =>
              /\ mpc' = "idle"
              /\ cur' = NoFrame
              /\ UNCHANGED <<conn, store, sent>>]_vars
    /\ [](mpc = "idle" /\ conn = "open" =>
              \A f \in Frames :
                  HandlerFor(f) # "get_settings" => ENABLED Receive(f))

\* C5 witness: a disappear handler raised half-way (the context was in the
\* list, its settings entry was not) and on_message caught it.
C5_Witness ==
    /\ mpc = "done"
    /\ mhandler = "removeSettings"
    /\ mexc = "KeyError"
    /\ cur.missing = "none"
    /\ conn = "open"

\* C6: when every delivered frame has been handled, every key of the
\* error-counter map is a context of the active list.
C6_CountersOnlyForActive ==
    mpc = "idle" => \A c \in DOMAIN errors : Active(c)

\* C7: a disappear frame is dispatched to removeSettings, and for a context
\* that is not in the active list removeSettings raises at once: on_message
\* catches it, and the list and both maps are as they were.
C7_DisappearOfInactive ==
    /\ [][mpc = "idle" /\ mpc' # mpc /\ cur'.kind = "dict" /\ cur'.hasEvent
              /\ cur'.event = willDisappear =>
              mpc' = "removeSettings" /\ UNCHANGED store]_vars
    /\ [][mpc = "removeSettings" /\ mpc' # mpc /\ cur.missing = "none"
              /\ ~Active(cur.context) =>
              /\ mpc' = "done"
              /\ mexc' # "none"
              /\ UNCHANGED <<store, conn>>]_vars

\* C7 witness: a disappear frame for c1, which is not active while another
\* context is, has ended in the exception of list.index.
C7_Witness ==
    /\ mpc = "done"
    /\ cur.event = willDisappear
    /\ cur.context = "c1"
    /\ mexc = "ValueError"
    /\ ~Active("c1")
    /\ Active("c2")

\* event[0].upper() + event[1:]
UpperFirst(event) == <<Upper(Head(event))>> \o Tail(event)

\* C8 as stated: a frame that is a mapping and whose event name is missing,
\* empty or none of the recognized names never has a handler of the
\* instance store run.
C8_UnlistedNameRunsNoStoreHandler ==
    mpc # "idle" /\ cur.kind = "dict"
    /\ (~cur.hasEvent \/ cur.event = <<>> \/ cur.event \notin RecognizedEvents)
    => mhandler \notin StoreHandlers

\* the event name is missing, empty, or differs from every recognized name
\* even after the first character of both is upper-cased
Unrecognized(f) ==
    \/ ~f.hasEvent
    \/ f.event = <<>>
    \/ UpperFirst(f.event) \notin {UpperFirst(e) : e \in RecognizedEvents}

\* C8 amended: for a frame that is a mapping and whose event name is
\* missing, empty, or differs from every recognized name even with the
\* first character upper-cased, on_message ends in the one step that
\* receives it, lets no exception out, runs no handler of the instance
\* store, and leaves the list and both maps as they were.
C8_UnrecognizedIsDropped ==
    [][mpc = "idle" /\ mpc' # mpc /\ cur'.kind = "dict" /\ Unrecognized(cur') =>
          /\ mpc' = "done"
          /\ mhandler' \notin StoreHandlers
          /\ UNCHANGED <<store, conn>>]_vars

\* C8 witness: the frame named _loop reached PulsePlugin.on_loop, which
\* raised on its argument; on_message caught it.
C8_Witness ==
    /\ mpc = "done"
    /\ cur.event = underscoreLoop
    /\ mhandler = "on_loop"
    /\ mexc = "TypeError"
    /\ conn = "open"
    /\ contexts # <<>>

\* C9: a frame that does not parse, or parses to something that is no
\* mapping, is finished in the step that receives it: no handler is
\* called, nothing is sent, the list and both maps are as they were, the
\* connection is open and on_message returns to take the next frame.
C9_GarbageIsDropped ==
    /\ [][mpc = "idle" /\ mpc' # mpc /\ cur'.kind \in {"unparsable", "nondict"} =>
              /\ mpc' = "done"
              /\ mhandler' = "None"
              /\ UNCHANGED <<store, conn, sent>>]_vars
    /\ [](mpc = "done" /\ cur.kind \in {"unparsable", "nondict"} =>
              conn = "open" /\ ENABLED Return)

\* C9 witness: an unparsable frame was dropped while a context is active.
C9_Witness ==
    /\ mpc = "done"
    /\ cur.kind = "unparsable"
    /\ mexc = "JSONDecodeError"
    /\ contexts # <<>>
    /\ conn = "open"

\* C10: the active list never holds a context twice; handling an appear or
\* settings-received frame for a context that is already active leaves the
\* list as it is, and when the frame (carrying the payload) has been
\* handled the context's settings and info are the frame's.
C10_AppearIsUpsert ==
    /\ [](\A i, j \in 1..Len(contexts) : contexts[i] = contexts[j] => i = j)
    /\ [][(mpc \in {"setSettings", "set_settings", "set_info"} /\ Active(cur.context))
              => UNCHANGED contexts]_vars
    /\ [](mpc = "done" /\ mhandler = "setSettings" /\ mexc = "none" =>
              /\ ctxSettings[cur.context] = cur.settings
              /\ ctxInfo[cur.context] = InfoOf(cur))

\* C10 witness: an appear frame for the already active c1 is being handled;
\* the list still holds c1 once, the settings are already the new ones, the
\* info is still the old one.
C10_Witness ==
    /\ mpc = "set_info"
    /\ cur.context = "c1"
    /\ contexts = <<"c1">>
    /\ "c1" \in DOMAIN ctxInfo
    /\ ctxInfo["c1"].action # cur.action
    /\ ctxSettings["c1"] = cur.settings

\* C11: a call of SetState with a state other than 0 and 1 raises
\* ValueError and hands nothing to socket.send; a call with 0 or 1 raises
\* nothing and hands socket.send exactly one frame, a setState frame that
\* carries the context and the state of the call.
C11_SetStateValidates ==
    [][(call'.op = "SetState" /\ (call' # call \/ sent' # sent)) =>
          IF call'.state \in {0, 1}
          THEN /\ call'.exc = "none"
               /\ Len(sent') = Len(sent) + 1
               /\ SubSeq(sent', 1, Len(sent)) = sent
               /\ sent'[Len(sent')].event = "setState"
               /\ sent'[Len(sent')].context = call'.context
               /\ sent'[Len(sent')].state = call'.state
          ELSE call'.exc = "ValueError" /\ sent' = sent]_vars

\* C11 witness: after a setState frame with state 1 went out, a call with
\* state 2 raised and left the sent frames as they were.
C11_Witness ==
    /\ call.op = "SetState"
    /\ call.state = 2
    /\ call.exc = "ValueError"
    /\ Len(sent) = 2
    /\ sent[2].event = "setState"
    /\ sent[2].state = 1

\* the registerEvent frames sent so far
Registrations == Cardinality({i \in 1..Len(sent) : sent[i] = RegisterMsg})

\* C12: nothing is sent before the connection is open; from the moment it
\* is open the first frame sent is the registration, and it is the only
\* registration: no frame of the image loop (started before the connection
\* opens) or of a handler precedes it, and none repeats it.
C12_RegistrationFirst ==
    /\ conn \in {"new", "connecting"} => sent = <<>>
    /\ conn = "open" => sent # <<>>
    /\ sent # <<>> => sent[1] = RegisterMsg /\ Registrations = 1

\* C12 witness: the image loop, running since before the connection
\* opened, has sent a frame, and the registration precedes it.
C12_Witness ==
    /\ Len(sent) = 2
    /\ sent[1] = RegisterMsg
    /\ sent[2].by = "loop"

\* C13: once the flag is false after run() it is false for good; no tick
\* begins while the flag is false; and, the image_loop thread being
\* scheduled and its on_loop calls coming back, a closed connection leads
\* to the end of image_loop.
C13_CloseEndsLoop ==
    /\ [][(~running /\ lpc # "off") => ~running']_vars
    /\ [][~running => ~(lpc # "for" /\ lpc' = "for" /\ idx' = 0)]_vars
    /\ [](conn = "closed" => ~running)
    /\ (conn = "closed") ~> (lpc = "done")

\* C13 witness: the connection was closed with two contexts active, both
\* visited by the loop before, and image_loop has ended.
C13_Witness ==
    /\ conn = "closed"
    /\ lpc = "done"
    /\ contexts = <<"c1", "c2">>
    /\ DOMAIN last_devices = {"c1", "c2"}
    /\ errors = EmptyDict

\* how often c occurs in the list s
Occurrences(s, c) == Cardinality({i \in 1..Len(s) : s[i] = c})

\* C14: while a tick is under way every on_loop call it has made was for a
\* context of the list as it was when the tick began, at most one call per
\* context; and when the for loop of a tick is exhausted, on_loop has been
\* called exactly once for each context of that list.
C14_TickVisitsSnapshot ==
    /\ [](lpc \in {"for", "hook"} =>
              \A c \in Contexts :
                  Occurrences(tick.hooked, c) <= Occurrences(tick.start, c))
    /\ [][(lpc = "for" /\ lpc' = "while") =>
              \A c \in Contexts :
                  Occurrences(tick.hooked, c) = Occurrences(tick.start, c)]_vars

\* C15: when on_loop is called for a context, that context is in the
\* active list exactly when it has a settings entry, and exactly when it
\* has an info entry: the call sees no context half created or half removed.
C15_HookSeesWholeContext ==
    lpc = "hook" =>
        /\ Active(lctx) <=> lctx \in DOMAIN ctxSettings
        /\ Active(lctx) <=> lctx \in DOMAIN ctxInfo

Tripped == \E c \in DOMAIN errors : errors[c] >= MAX_ERRORS

\* C17: the step in which on_loop raises, the one that trips the breaker
\* included, leaves the connection, on_message and the instance store as
\* they are; with the breaker tripped and the connection open every frame
\* is still received and dispatched, and a frame handled to its end has had
\* its effect: an appear frame leaves the context active with the frame's
\* settings, a disappear frame leaves it in none of list and maps, and the
\* step of get_settings that ends without an exception hands socket.send
\* its sendToPropertyInspector frame.
C17_RouterSurvivesBreaker ==
    /\ [][(lpc = "hook" /\ lres' = "raised") => UNCHANGED <<conn, store, msgVars>>]_vars
    /\ [](Tripped /\ conn = "open" /\ mpc = "idle" =>
              \A f \in BreakerFrames :
                  (HandlerFor(f) = "get_settings" => InspectorSent < MaxInspector)
                      => ENABLED Receive(f))
    /\ [](Tripped /\ mpc = "done" /\ mexc = "none" =>
              /\ mhandler = "setSettings" =>
                    /\ Active(cur.context)
                    /\ ctxSettings[cur.context] = cur.settings
                    /\ ctxInfo[cur.context] = InfoOf(cur)
              /\ mhandler = "removeSettings" =>
                    /\ ~Active(cur.context)
                    /\ cur.context \notin DOMAIN ctxSettings
                    /\ cur.context \notin DOMAIN ctxInfo
              /\ mhandler = "get_settings" =>
                    \E i \in 1..Len(sent) : sent[i] = SendToPIMsg(cur.context))
    /\ [][(Tripped /\ mpc = "refresh" /\ mpc' = "done" /\ mexc' = "none") =>
              sent' = Append(sent, SendToPIMsg(cur.context))]_vars

\* C17 witness: c1 tripped the breaker and image_loop has ended; after
\* that c2 opened its property inspector and got its frame.
C17_Witness ==
    /\ "c1" \in DOMAIN errors
    /\ errors["c1"] = MAX_ERRORS
    /\ lpc = "done"
    /\ conn = "open"
    /\ mpc = "done"
    /\ mhandler = "get_settings"
    /\ Active("c2")
    /\ Len(sent) = 3
    /\ sent[2] = ShowAlertMsg("c1", "loop")
    /\ sent[3] = SendToPIMsg("c2")

\* the sink a key release of context c resolves to, NoSink when it
\* resolves to none
KeySink(c) ==
    IF c \in DOMAIN ctxSettings
    THEN SinkFromName(sinks, ctxSettings[c].audioDevice)
    ELSE NoSink

\* C18: a key release that resolves to a sink whose cached volume is v
\* percent sets the sink of the server to min(100, v + 5) percent when the
\* action is volup and to max(0, v - 5) percent when it is voldown: never
\* below v for volup, never above v for voldown.
C18_VolumeStep ==
    [][(mpc = "onKeyUp" /\ mpc' = "done" /\ KeySink(cur.context) # NoSink
            /\ cur.action \in {"volup", "voldown"}) =>
          LET index == KeySink(cur.context).index
              v == PercentOf(KeySink(cur.context).volume)
              requested == SinkFromIndex(server', index).volume
          IN  /\ cur.action = "volup" =>
                    requested = Min(100, v + 5) /\ requested >= v
              /\ cur.action = "voldown" =>
                    requested = Max(0, v - 5) /\ requested <= v]_vars

\* C19: a key release for a context that has no settings entry or an empty
\* one, whose settings name no audio device, or whose device is the
\* description of no cached sink hands socket.send exactly one showAlert
\* frame for that context and leaves volume and mute of every sink alone;
\* a key release that resolves to a sink sends nothing.
C19_AlertIffUnresolved ==
    [][(mpc = "onKeyUp" /\ mpc' = "done" /\ cur.missing = "none") =>
          IF \/ cur.context \notin DOMAIN ctxSettings
             \/ ctxSettings[cur.context] = EmptySettings
             \/ ctxSettings[cur.context].audioDevice = Absent
             \/ \A i \in 1..Len(sinks) :
                    sinks[i].description # ctxSettings[cur.context].audioDevice
          THEN /\ sent' = Append(sent, ShowAlertMsg(cur.context, "ws"))
               /\ UNCHANGED <<server, sinks>>
          ELSE sent' = sent]_vars

\* C19 witness: a key release of c1, whose device Headset is no sink, got
\* its alert after one of c2, which has no settings, got its own.
C19_Witness ==
    /\ mpc = "done"
    /\ cur.event = keyUp
    /\ cur.context = "c1"
    /\ "c1" \in DOMAIN ctxSettings
    /\ ctxSettings["c1"].audioDevice = "Headset"
    /\ Len(sent) = 3
    /\ sent[2] = ShowAlertMsg("c2", "ws")
    /\ sent[3] = ShowAlertMsg("c1", "ws")

\* the positions in sent of the setImage frames for c
ImagesOf(c) == {i \in 1..Len(sent) : sent[i].event = "setImage" /\ sent[i].context = c}

\* the last setImage frame sent for a c that has one
LastImage(c) == sent[CHOOSE i \in ImagesOf(c) : \A j \in ImagesOf(c) : j <= i]

\* C20: a context that has remembered display values has been sent a
\* setImage frame, and the remembered nickname and volume are those of the
\* last one; and an on_loop call that gets to the comparison sends a
\* setImage frame exactly when no frame was sent for the context yet or
\* the nickname and volume to show differ from those of the last frame.
C20_CacheIsLastImage ==
    /\ [](\A c \in DOMAIN last_devices :
              /\ ImagesOf(c) # {}
              /\ c \in DOMAIN last_volumes
              /\ LastImage(c).nickname = last_devices[c]
              /\ LastImage(c).volume = last_volumes[c])
    /\ [][(lpc = "hook" /\ lpc' = "for" /\ lres' = "ok" /\ ShowsVolume(lctx)) =>
              LET sink == SinkFromName(sinks, ctxSettings[lctx].audioDevice)
              IN  sent' # sent <=>
                      \/ ImagesOf(lctx) = {}
                      \/ LastImage(lctx).nickname # ShownNickname(ctxSettings[lctx], sink)
                      \/ LastImage(lctx).volume # ShownVolume(sink)]_vars

\* C21: the websocket thread holds the lock while it is in refresh(), and
\* an on_loop call that gets to its sink lookup (it reads the sink list)
\* never comes back while the websocket thread holds the lock.
C21_SinkListUnderLock ==
    /\ [](mpc = "refresh" <=> pulse_lock = "ws")
    /\ [][(lpc = "hook" /\ lpc' # "hook" /\ HookCanRaise(lctx)) =>
              pulse_lock # "ws"]_vars

\* C22: every counter of the error map is between 1 and MAX_ERRORS, at
\* most one context's counter equals MAX_ERRORS, and no step removes a
\* counter or makes it smaller.
C22_CounterRange ==
    /\ [](\A c \in DOMAIN errors : errors[c] \in 1..MAX_ERRORS)
    /\ [](Cardinality({c \in DOMAIN errors : errors[c] = MAX_ERRORS}) <= 1)
    /\ [][\A c \in DOMAIN errors : c \in DOMAIN errors' /\ errors'[c] >= errors[c]]_vars

\* C22 witness: c1 tripped the breaker when c2 was one failure short of it,
\* and image_loop has ended.
C22_Witness ==
    /\ DOMAIN errors = {"c1", "c2"}
    /\ errors["c1"] = MAX_ERRORS
    /\ errors["c2"] = MAX_ERRORS - 1
    /\ ~running
    /\ lpc = "done"

====
